---- MODULE Spec2Model ----
(***************************************************************************)
(* A model of the grid path finder of src/main.cpp: the terrain cost       *)
(* table, the two distance heuristics, Neighbours, and FindPath (search    *)
(* loop over a priority queue, then reconstruction over parent links),     *)
(* called from main and called again by the events of the frame loop.      *)
(*                                                                         *)
(* float values are modelled exactly: a float x is the integer x * 2^23.   *)
(* Every float the program computes is 0 or lies in [1, 128), where each   *)
(* float is a multiple of 2^-23, so the integer is exact; an addition      *)
(* rounds to the nearest float (ties to even) as the hardware does, and    *)
(* sqrtf is the correctly rounded square root.                             *)
(***************************************************************************)
EXTENDS Integers, Sequences, FiniteSets, Bags, TLC

(***************************************************************************)
(* Program constants                                                       *)
(***************************************************************************)
TILE_COUNT == 10

AIR == 0
GRASS == 1
WATER == 2
MUD == 3
MOUNTAIN == 4
COUNT == 5

(***************************************************************************)
(* Bounds of the model                                                     *)
(***************************************************************************)
\* the side of the grids of the general specification
GridSide == 3
\* the number of cells of such a grid whose terrain is not AIR
MaxRough == 2
\* the side of the grids without terrain cost
OpenSide == 4
\* the side of the grids of the calls with a cell outside the grid
ArgSide == 2
\* cap on the length of the reconstructed path once an access has left the
\* vectors (the loop of lines 207-212 has no bound of its own)
MaxWildPath == 4
\* the side of the grid of the frame loop
FrameSide == 3

(***************************************************************************)
(* float arithmetic                                                        *)
(***************************************************************************)
\* 1.0f; a float x is represented by x * One
One == 8388608

\* FLT_EPSILON = 2^-23
FLT_EPSILON == 1

ToFloat(i) == i * One

Abs(i) == IF i < 0 THEN -i ELSE i

\* the spacing of floats around s, in units of 2^-23: 2^e for s in
\* [2^e, 2^(e+1)), e = 0..6 (no value of the program reaches 128)
UlpOf(s) ==
    IF s < 2 * One THEN 1
    ELSE IF s < 4 * One THEN 2
    ELSE IF s < 8 * One THEN 4
    ELSE IF s < 16 * One THEN 8
    ELSE IF s < 32 * One THEN 16
    ELSE IF s < 64 * One THEN 32
    ELSE 64

\* round to nearest float, ties to even
RoundF(s) ==
    LET u == UlpOf(s)
        q == s \div u
        r == s % u
    IN  IF 2 * r > u \/ (2 * r = u /\ q % 2 = 1) THEN (q + 1) * u ELSE q * u

\* float + float
FAdd(x, y) == RoundF(x + y)

\* digit-by-digit square root: k more binary digits of sqrt(n), where
\* root = floor(sqrt(n * 4^j)) and rem = n * 4^j - root^2
RECURSIVE SqrtDigits(_, _, _)
SqrtDigits(root, rem, k) ==
    IF k = 0 THEN <<root, rem>>
    ELSE IF 4 * rem >= 4 * root + 1
         THEN SqrtDigits(2 * root + 1, 4 * rem - (4 * root + 1), k - 1)
         ELSE SqrtDigits(2 * root, 4 * rem, k - 1)

\* sqrtf of a small non-negative integer, correctly rounded
SqrtF(n) ==
    IF n = 0 THEN 0
    ELSE LET e  == CHOOSE x \in 0..4 : 4^x <= n /\ n < 4^(x + 1)
             r0 == CHOOSE x \in 0..31 : x * x <= n /\ n < (x + 1) * (x + 1)
             d  == SqrtDigits(r0, n - r0 * r0, 23 - e)
             \* d[1] = floor(sqrt(n) * 2^(23-e)) has the 24 digits of a float;
             \* sqrt(n) is at least half a unit above it iff rem > root
             m  == IF d[2] > d[1] THEN d[1] + 1 ELSE d[1]
         IN  m * 2^e

MaxSq == 2 * (TILE_COUNT + 1) * (TILE_COUNT + 1)
SqrtTable == [n \in 0..MaxSq |-> SqrtF(n)]

(***************************************************************************)
(* State                                                                   *)
(***************************************************************************)
\* TILE_COUNT, the side of the grid of this run
VARIABLE tileCount
\* main: Map map, map[row][col] is a TileType
VARIABLE map
\* main: Cell start, the first argument of FindPath
VARIABLE start
\* main: Cell goal, FindPath's parameter end
VARIABLE goal
\* main: bool manhattan
VARIABLE manhattan
\* main: vector<Cell> path, the last route returned
VARIABLE path
\* FindPath: vector<Node> tileNodes, by index
VARIABLE tileNodes
\* FindPath: vector<bool> closedList, by index
VARIABLE closedList
\* FindPath: the priority queue, as the bag of its nodes
VARIABLE openList
\* FindPath: its local vector<Cell> path
VARIABLE fpPath
\* FindPath: currentCell of the reconstruction loop
VARIABLE currentCell
\* "call", "search", "reconstruct", "done" or "crashed"
VARIABLE pc
\* an access outside tileNodes / closedList has happened
VARIABLE ub

vars == <<tileCount, map, start, goal, manhattan, path, tileNodes, closedList, openList,
          fpPath, currentCell, pc, ub>>

mainVars == <<tileCount, map, start, goal, manhattan>>

nodeCount == tileCount * tileCount

(***************************************************************************)
(* Cells, heuristics, cost table, Neighbours                               *)
(***************************************************************************)
MkCell(c, r) == [col |-> c, row |-> r]

\* Cell{}: col = -1, row = -1
NoCell == MkCell(-1, -1)

InBounds(cell) ==
    /\ cell.col >= 0 /\ cell.col < tileCount
    /\ cell.row >= 0 /\ cell.row < tileCount

Cells == {MkCell(c, r) : c \in 0..(tileCount - 1), r \in 0..(tileCount - 1)}

Manhattan(a, b) == ToFloat(Abs(b.col - a.col) + Abs(b.row - a.row))

Euclidean(a, b) ==
    SqrtTable[(b.col - a.col) * (b.col - a.col) + (b.row - a.row) * (b.row - a.row)]

Index(cell) == cell.row * tileCount + cell.col

\* an index inside vector<Node>(nodeCount) / vector<bool>(nodeCount)
InRange(idx) == idx >= 0 /\ idx < nodeCount

costs == <<0, 10, 25, 50, 100>>

Cost(type) == ToFloat(costs[type + 1])

\* the nine (row, col) offsets in the order of the two nested loops
Offsets == [i \in 1..9 |-> [row |-> ((i - 1) \div 3) - 1, col |-> ((i - 1) % 3) - 1]]

\* line 97 compares the OFFSET with the coordinates of the cell
SkipOffset(cell, o) == o.row = cell.row /\ o.col = cell.col

RECURSIVE NeighboursFrom(_, _)
NeighboursFrom(cell, i) ==
    IF i > 9 THEN <<>>
    ELSE LET o == Offsets[i]
             neighbour == MkCell(cell.col + o.col, cell.row + o.row)
         IN  IF SkipOffset(cell, o) THEN NeighboursFrom(cell, i + 1)
             ELSE IF InBounds(neighbour)
                  THEN <<neighbour>> \o NeighboursFrom(cell, i + 1)
                  ELSE NeighboursFrom(cell, i + 1)

\* a cell without neighbours
NeighboursNot(cell) == <<>>

Neighbours(cell) == NeighboursFrom(cell, 1)

(***************************************************************************)
(* Node, Compare                                                           *)
(***************************************************************************)
Node(cell, parent, g, h) == [cell |-> cell, parent |-> parent, g |-> g, h |-> h]

F(node) == FAdd(node.g, node.h)

\* Compare(a, b): a.F() > b.F()
Compare(a, b) == F(a) > F(b)

\* operator==(Cell, Cell)
CellEq(a, b) == a.row = b.row /\ a.col = b.col

\* a reconstruction that forgets line 214
ReverseNot(s) == s

\* std::reverse
RECURSIVE Reverse(_)
Reverse(s) == IF s = <<>> THEN <<>> ELSE Append(Reverse(Tail(s)), Head(s))

\* the distance strategy selected by the flag (lines 189, 190)
Dist(a, b) == IF manhattan THEN Manhattan(a, b) ELSE Euclidean(a, b)

\* a queue that hands out a node of greatest F
TopNodesNot ==
    LET nodes == BagToSet(openList)
        fs    == {F(n) : n \in nodes}
        most  == CHOOSE m \in fs : \A x \in fs : ~(x > m)
    IN  {n \in nodes : F(n) = most}

\* priority_queue::top(): a node that Compare puts after no other node, that
\* is, a node of least F; which one of several is not specified
TopNodes ==
    LET nodes == BagToSet(openList)
        fs    == {F(n) : n \in nodes}
        least == CHOOSE m \in fs : \A x \in fs : ~(m > x)
    IN  {n \in nodes : F(n) = least}

(***************************************************************************)
(* FindPath                                                                *)
(***************************************************************************)
FreshNodes == [i \in 0..(nodeCount - 1) |-> Node(NoCell, NoCell, 0, 0)]
FreshClosed == [i \in 0..(nodeCount - 1) |-> FALSE]

\* a lookup with row and column exchanged
TerrainAtTransposed(cell) == map[cell.col][cell.row]

\* map[neighbour.row][neighbour.col] of line 191
TerrainAt(cell) == map[cell.row][cell.col]

\* a loop that forgets the test of line 186
ExploredNot(closed, idx) == FALSE

\* line 186
Explored(closed, idx) == closed[idx]

\* a test that also takes an equal score
BetterScoreNot(new, old) == new <= old

\* line 195
BetterScore(new, old) == new < old

\* lines 183-199 for one neighbour; st = [nodes, open]
Relax(st, current, neighbour, closed) ==
    LET neighbourIndex == Index(neighbour)
        gNew == Dist(current, neighbour)
        hNew == FAdd(Dist(neighbour, goal), Cost(TerrainAt(neighbour)))
        old  == F(st.nodes[neighbourIndex])
    IN  IF Explored(closed, neighbourIndex) THEN st
        ELSE IF old <= FLT_EPSILON \/ BetterScore(FAdd(gNew, hNew), old)
             THEN [nodes |-> [st.nodes EXCEPT ![neighbourIndex] =
                                  Node(neighbour, current, gNew, hNew)],
                   open  |-> st.open (+) SetToBag({Node(neighbour, NoCell, gNew, hNew)})]
             ELSE st

\* the for loop of lines 181-200
RECURSIVE RelaxAll(_, _, _, _, _)
RelaxAll(st, current, nbrs, k, closed) ==
    IF k > Len(nbrs) THEN st
    ELSE RelaxAll(Relax(st, current, nbrs[k], closed), current, nbrs, k + 1, closed)

\* a set-up that forgets the sentinel of line 164
SentinelNot(nodes, s) == nodes

\* line 164
Sentinel(nodes, s) == [nodes EXCEPT ![Index(s)].parent = s]

\* a loop that forgets the test of line 173
AtGoalNot(cell) == FALSE

\* line 173
AtGoal(cell) == CellEq(cell, goal)

\* lines 160-165
Setup ==
    /\ pc = "call"
    /\ InRange(Index(start))
    /\ tileNodes' = Sentinel(FreshNodes, start)
    /\ closedList' = FreshClosed
    /\ openList' = SetToBag({Node(start, NoCell, 0, 0)})
    /\ fpPath' = <<>>
    /\ currentCell' = NoCell
    /\ pc' = "search"
    /\ UNCHANGED <<mainVars, path, ub>>

\* a mark that clears the marks of the other cells
CloseNot(closed, idx) == [i \in DOMAIN closed |-> i = idx]

\* line 178
Close(closed, idx) == [closed EXCEPT ![idx] = TRUE]

\* one iteration of the while loop of lines 168-201 that does not break
Expand ==
    /\ pc = "search"
    /\ \E top \in TopNodes :
          LET current == top.cell
              closed  == Close(closedList, Index(current))
              st      == RelaxAll([nodes |-> tileNodes,
                                   open  |-> openList (-) SetToBag({top})],
                                  current, Neighbours(current), 1, closed)
          IN  /\ ~AtGoal(current)
              /\ InRange(Index(current))
              /\ closedList' = closed
              /\ tileNodes' = st.nodes
              /\ openList' = st.open
    /\ UNCHANGED <<mainVars, path, fpPath, currentCell, pc, ub>>

\* the loop ends: the queue is empty (line 168) or the goal is on top (173),
\* then lines 203-205
EndSearch ==
    /\ pc = "search"
    /\ \/ openList = EmptyBag
       \/ \E top \in TopNodes : AtGoal(top.cell)
    /\ fpPath' = <<>>
    /\ currentCell' = goal
    /\ pc' = "reconstruct"
    /\ UNCHANGED <<mainVars, path, tileNodes, closedList, openList, ub>>

\* one iteration of the loop of lines 207-212
Walk ==
    /\ pc = "reconstruct"
    /\ InRange(Index(currentCell))
    /\ ~CellEq(tileNodes[Index(currentCell)].parent, currentCell)
    /\ fpPath' = Append(fpPath, currentCell)
    /\ currentCell' = tileNodes[Index(currentCell)].parent
    /\ UNCHANGED <<mainVars, path, tileNodes, closedList, openList, pc, ub>>

\* the loop of lines 207-212 ends, lines 213-216, and main stores the result
\* (lines 287, 343)
Return ==
    /\ pc = "reconstruct"
    /\ InRange(Index(currentCell))
    /\ CellEq(tileNodes[Index(currentCell)].parent, currentCell)
    /\ path' = Reverse(Append(fpPath, start))
    /\ pc' = "done"
    /\ UNCHANGED <<mainVars, tileNodes, closedList, openList, fpPath, currentCell, ub>>

Next == Setup \/ Expand \/ EndSearch \/ Walk \/ Return

(***************************************************************************)
(* main: the checkbox of line 340 changes the flag and line 343 calls      *)
(* FindPath again; path keeps the old route until the call returns         *)
(***************************************************************************)
ToggleHeuristic ==
    /\ pc = "done"
    /\ manhattan' = ~manhattan
    /\ pc' = "call"
    /\ UNCHANGED <<tileCount, map, start, goal, path, tileNodes, closedList,
                   openList, fpPath, currentCell, ub>>

NextUI == Next \/ ToggleHeuristic

(***************************************************************************)
(* main: one frame of the loop of lines 293-349. The condition of lines    *)
(* 337-340 is an || chain: the first widget that reports an event ends the *)
(* evaluation, so a frame has at most one event, and line 343 calls        *)
(* FindPath in that frame. A frame without event changes nothing.          *)
(***************************************************************************)
\* line 337: the button is pressed
PressButton ==
    /\ pc = "done"
    /\ pc' = "call"
    /\ UNCHANGED <<mainVars, path, tileNodes, closedList, openList, fpPath,
                   currentCell, ub>>

\* what SliderInt2 can make of a cell: one of its two ints gets another value
\* of the range 0 .. TILE_COUNT - 1
Slid(cell) ==
    {MkCell(c, cell.row) : c \in (0..(tileCount - 1)) \ {cell.col}}
        \cup {MkCell(cell.col, r) : r \in (0..(tileCount - 1)) \ {cell.row}}

\* line 338: the Start slider changes start
SlideStart ==
    /\ pc = "done"
    /\ \E s \in Slid(start) : start' = s
    /\ pc' = "call"
    /\ UNCHANGED <<tileCount, map, goal, manhattan, path, tileNodes, closedList,
                   openList, fpPath, currentCell, ub>>

\* a Goal slider whose change is not followed by the call of line 343
SlideGoalNot ==
    /\ pc = "done"
    /\ \E g \in Slid(goal) : goal' = g
    /\ UNCHANGED <<tileCount, map, start, manhattan, path, tileNodes, closedList,
                   openList, fpPath, currentCell, pc, ub>>

\* line 339: the Goal slider changes goal
SlideGoal ==
    /\ pc = "done"
    /\ \E g \in Slid(goal) : goal' = g
    /\ pc' = "call"
    /\ UNCHANGED <<tileCount, map, start, manhattan, path, tileNodes, closedList,
                   openList, fpPath, currentCell, ub>>

NextFrame == Next \/ PressButton \/ SlideStart \/ SlideGoal \/ ToggleHeuristic

(***************************************************************************)
(* Accesses outside the vectors. Index(cell) of a cell outside the grid    *)
(* can lie outside 0..nodeCount-1; operator[] does not check, so the       *)
(* access is undefined: the process is killed, or it goes on with the      *)
(* write lost and the read yielding whatever is there.                     *)
(***************************************************************************)
\* what a read of a parent outside tileNodes can yield: the cell itself (the
\* loop of line 207 ends), or another cell
WildParents(cell) == {cell, NoCell, start}

\* line 164 writes outside tileNodes
WildSetup ==
    /\ pc = "call"
    /\ ~InRange(Index(start))
    /\ tileNodes' = FreshNodes
    /\ closedList' = FreshClosed
    /\ openList' = SetToBag({Node(start, NoCell, 0, 0)})
    /\ fpPath' = <<>>
    /\ currentCell' = NoCell
    /\ pc' = "search"
    /\ ub' = TRUE
    /\ UNCHANGED <<mainVars, path>>

\* line 178 writes outside closedList; the rest of the iteration as in Expand
WildExpand ==
    /\ pc = "search"
    /\ \E top \in TopNodes :
          LET current == top.cell
              st      == RelaxAll([nodes |-> tileNodes,
                                   open  |-> openList (-) SetToBag({top})],
                                  current, Neighbours(current), 1, closedList)
          IN  /\ ~AtGoal(current)
              /\ ~InRange(Index(current))
              /\ tileNodes' = st.nodes
              /\ openList' = st.open
    /\ ub' = TRUE
    /\ UNCHANGED <<mainVars, path, closedList, fpPath, currentCell, pc>>

\* line 207 reads outside tileNodes and the loop goes on
WildWalk ==
    /\ pc = "reconstruct"
    /\ ~InRange(Index(currentCell))
    /\ Len(fpPath) < MaxWildPath
    /\ \E p \in WildParents(currentCell) \ {currentCell} :
          /\ fpPath' = Append(fpPath, currentCell)
          /\ currentCell' = p
    /\ ub' = TRUE
    /\ UNCHANGED <<mainVars, path, tileNodes, closedList, openList, pc>>

\* line 207 reads outside tileNodes and the loop ends
WildReturn ==
    /\ pc = "reconstruct"
    /\ ~InRange(Index(currentCell))
    /\ path' = Reverse(Append(fpPath, start))
    /\ pc' = "done"
    /\ ub' = TRUE
    /\ UNCHANGED <<mainVars, tileNodes, closedList, openList, fpPath, currentCell>>

\* one of these accesses kills the process
Crash ==
    /\ \/ pc = "call" /\ ~InRange(Index(start))
       \/ pc = "search" /\ \E top \in TopNodes :
                              ~AtGoal(top.cell) /\ ~InRange(Index(top.cell))
       \/ pc = "reconstruct" /\ ~InRange(Index(currentCell))
    /\ pc' = "crashed"
    /\ ub' = TRUE
    /\ UNCHANGED <<mainVars, path, tileNodes, closedList, openList, fpPath,
                   currentCell>>

NextArg == Next \/ WildSetup \/ WildExpand \/ WildWalk \/ WildReturn \/ Crash

(***************************************************************************)
(* Inputs                                                                  *)
(***************************************************************************)
Grid(n) == {MkCell(c, r) : c \in 0..(n - 1), r \in 0..(n - 1)}

\* the map of side n that is AIR except on the cells of rough, a function from
\* a set of cells to their terrain
MapWith(n, rough) ==
    [r \in 0..(n - 1) |-> [c \in 0..(n - 1) |->
        IF MkCell(c, r) \in DOMAIN rough THEN rough[MkCell(c, r)] ELSE AIR]]

OpenMap(n) == MapWith(n, <<>>)

RoughKinds == {WATER, MOUNTAIN}

\* the maps of side n with at most MaxRough cells of a terrain that costs
Maps(n) ==
    {MapWith(n, rough) : rough \in UNION {[S -> RoughKinds] :
        S \in {T \in SUBSET Grid(n) : Cardinality(T) <= MaxRough}}}

\* main up to the call of line 287, for a grid of side n and the given
\* arguments
InitWith(n, m, s, g, h) ==
    /\ tileCount = n
    /\ map = m
    /\ start = s
    /\ goal = g
    /\ manhattan = h
    /\ path = <<>>
    /\ tileNodes = <<>>
    /\ closedList = <<>>
    /\ openList = EmptyBag
    /\ fpPath = <<>>
    /\ currentCell = NoCell
    /\ pc = "call"
    /\ ub = FALSE

Init ==
    \E m \in Maps(GridSide), s \in Grid(GridSide), g \in Grid(GridSide), h \in BOOLEAN :
        InitWith(GridSide, m, s, g, h)

Spec == Init /\ [][Next]_vars

\* grids without terrain cost, every start and goal, the heuristic toggled
InitOpen ==
    \E s \in Grid(OpenSide), g \in Grid(OpenSide), h \in BOOLEAN :
        InitWith(OpenSide, OpenMap(OpenSide), s, g, h)

SpecOpen == InitOpen /\ [][NextUI]_vars

\* the scenario of main's grid size without terrain: 10 x 10, (1,1) to (8,8),
\* axis-sum heuristic
InitDiagonal ==
    InitWith(TILE_COUNT, OpenMap(TILE_COUNT), MkCell(1, 1), MkCell(8, 8), TRUE)

SpecDiagonal == InitDiagonal /\ [][Next]_vars

\* the same grid with column 2, rows 0 to 6 set to MOUNTAIN
ColumnMap ==
    MapWith(TILE_COUNT, [c \in {MkCell(2, r) : r \in 0..6} |-> MOUNTAIN])

InitColumn ==
    \E h \in BOOLEAN :
        InitWith(TILE_COUNT, ColumnMap, MkCell(1, 1), MkCell(8, 8), h)

SpecColumn == InitColumn /\ [][Next]_vars

\* FindPath called with a start or a goal outside the grid
Around(n) == {MkCell(c, r) : c \in (-1)..n, r \in (-1)..n}

InitArg ==
    \E s \in Around(ArgSide), g \in Around(ArgSide), h \in BOOLEAN :
        /\ (s \notin Grid(ArgSide) \/ g \notin Grid(ArgSide))
        /\ InitWith(ArgSide, OpenMap(ArgSide), s, g, h)

SpecArg == InitArg /\ [][NextArg]_vars

\* main on a grid of side FrameSide: MOUNTAIN on the upper cells of column 1,
\* start and goal in two corners, manhattan = true (lines 267-287), then the
\* frames
FrameMap ==
    MapWith(FrameSide, [c \in {MkCell(1, r) : r \in 0..(FrameSide - 2)} |-> MOUNTAIN])

InitFrame ==
    InitWith(FrameSide, FrameMap, MkCell(0, 0), MkCell(FrameSide - 1, FrameSide - 1), TRUE)

SpecFrame == InitFrame /\ [][NextFrame]_vars

(***************************************************************************)
(* Properties                                                              *)
(***************************************************************************)
\* one of the 8 adjacency offsets
Adjacent(a, b) ==
    /\ a # b
    /\ Abs(a.col - b.col) <= 1
    /\ Abs(a.row - b.row) <= 1

Returned == pc = "done"

\* C1: the route returned for an in-bounds start and goal begins with start,
\* ends with goal, and each cell of it is 8-adjacent to the next, whatever
\* the map, the heuristic and the order of equal-F nodes.
RouteConnectsStartToGoal ==
    Returned =>
        /\ Len(path) >= 1
        /\ path[1] = start
        /\ path[Len(path)] = goal
        /\ \A k \in 1..(Len(path) - 1) : Adjacent(path[k], path[k + 1])

\* a route of at least four cells has been returned on a map with terrain
RouteConnectsWitness ==
    /\ Returned
    /\ Len(path) >= 4
    /\ \E c \in Cells : TerrainAt(c) # AIR

\* the cost of a route: for each step the heuristic distance between the two
\* cells plus the terrain cost of the cell entered
StepCost(a, b) == Dist(a, b) + Cost(TerrainAt(b))

RECURSIVE RouteCost(_)
RouteCost(r) ==
    IF Len(r) <= 1 THEN 0 ELSE StepCost(r[1], r[2]) + RouteCost(Tail(r))

\* one more step: from the pairs <<cell, least cost of a route of at most k
\* steps from start>> to those for k + 1 steps, over all 8-adjacent routes
\* (a route that already costs more than CostCap is not extended: the sums
\* stay below 2^31, and a least cost below the cap is not affected)
CostCap == 120 * One

CheaperStep(D) ==
    LET cand == D \cup UNION {{<<c, p[2] + StepCost(p[1], c)>> :
                                  c \in {x \in Cells : Adjacent(p[1], x)}} :
                              p \in {q \in D : q[2] <= CostCap}}
    IN  {q \in cand : \A x \in cand : x[1] = q[1] => q[2] <= x[2]}

RECURSIVE Cheapest(_)
Cheapest(k) == IF k = 0 THEN {<<start, 0>>} ELSE CheaperStep(Cheapest(k - 1))

\* the least cost of an 8-adjacent route from start to goal
LeastCost == (CHOOSE q \in Cheapest(nodeCount - 1) : q[1] = goal)[2]

\* C2: the route returned costs no more than any other 8-adjacent route from
\* start to goal on the grid.
RouteIsCheapest ==
    Returned => RouteCost(path) <= LeastCost

\* the score stored for a cell, Unvisited while line 194 takes the cell for
\* unexplored
Unvisited == 128 * One

StoredF(nodes, c) ==
    IF F(nodes[Index(c)]) <= FLT_EPSILON THEN Unvisited ELSE F(nodes[Index(c)])

\* an iteration of the search loop lowers the stored score of a cell and
\* raises none, or else leaves the scores and shortens the queue: the scores
\* are floats below 128, so there can be only finitely many iterations
SearchProgress ==
    (pc = "search" /\ pc' = "search") =>
        /\ \A c \in Cells : StoredF(tileNodes', c) <= StoredF(tileNodes, c)
        /\ \/ \E c \in Cells : StoredF(tileNodes', c) < StoredF(tileNodes, c)
           \/ BagCardinality(openList') < BagCardinality(openList)

\* an iteration of the reconstruction loop follows one parent, and no more
\* than nodeCount are followed
WalkProgress ==
    (pc = "reconstruct" /\ pc' = "reconstruct") =>
        /\ Len(fpPath') = Len(fpPath) + 1
        /\ Len(fpPath') <= nodeCount

\* a call that has not returned can take its next step: the guards of Setup,
\* of Expand or EndSearch, and of Walk or Return
NotStuck ==
    /\ pc = "call" => InRange(Index(start))
    /\ pc = "search" =>
          \/ openList = EmptyBag
          \/ \E top \in TopNodes : AtGoal(top.cell) \/ InRange(Index(top.cell))
    /\ pc = "reconstruct" => InRange(Index(currentCell))

\* C3: a call ends: the search loop stops after finitely many iterations and
\* the reconstruction loop after at most nodeCount parents; every step before
\* the return makes progress and is followed by another or by the return.
FindPathTerminates ==
    /\ []NotStuck
    /\ [][SearchProgress /\ WalkProgress]_vars

\* the search has expanded every cell but the goal before it returned
TerminatesWitness ==
    /\ Returned
    /\ Cardinality({c \in Cells : closedList[Index(c)]}) = nodeCount - 1

\* C4: when start = goal the call expands no cell and returns the route of
\* the single cell start.
TrivialPath ==
    start = goal =>
        /\ pc \in {"search", "reconstruct", "done"} =>
              \A c \in Cells : ~closedList[Index(c)]
        /\ Returned => path = <<start>>

\* such a call has returned, on a map with terrain on the start cell
TrivialPathWitness ==
    /\ Returned
    /\ start = goal
    /\ TerrainAt(start) # AIR

\* C5: a call with a start or a goal outside the grid reports
\* InvalidArgument: it returns no route, and it makes no access outside the
\* vectors (which can also kill the process).
InvalidArgumentReported ==
    (~InBounds(start) \/ ~InBounds(goal)) =>
        /\ ~Returned
        /\ ~ub
        /\ pc # "crashed"

\* C6: on the 10 x 10 grid without terrain, from (1,1) to (8,8) with the
\* axis-sum heuristic, the route returned is the diagonal of 8 cells.
DiagonalRoute ==
    Returned => path = [k \in 1..8 |-> MkCell(k, k)]

Max(a, b) == IF a >= b THEN a ELSE b

\* C7: on a grid without terrain cost the route returned has
\* max(|goal.col - start.col|, |goal.row - start.row|) + 1 cells, with either
\* heuristic.
RouteLengthIsChebyshev ==
    Returned =>
        Len(path) = Max(Abs(goal.col - start.col), Abs(goal.row - start.row)) + 1

\* C8: on the 10 x 10 grid with MOUNTAIN on column 2, rows 0 to 6, the route
\* returned from (1,1) to (8,8) has no cell of column 2 in rows 0 to 6, with
\* either heuristic and any order of equal-F nodes.
RouteAvoidsColumn ==
    Returned => \A k \in 1..Len(path) : ~(path[k].col = 2 /\ path[k].row <= 6)

\* a route has been returned with the Euclidean heuristic that crosses
\* column 2 (below the mountains)
RouteAvoidsColumnWitness ==
    /\ Returned
    /\ ~manhattan
    /\ \E k \in 1..Len(path) : path[k].col = 2

\* the in-bounds cells of the 3 x 3 block centred on a cell, without the cell
Block(cell) == {c \in Cells : Adjacent(cell, c)}

\* C9: Neighbours yields exactly the in-bounds cells of the 3 x 3 block
\* around the cell, without the cell itself; stated of every cell the search
\* has expanded.
NeighboursAreTheBlock ==
    pc \in {"search", "reconstruct", "done"} =>
        \A c \in Cells :
            closedList[Index(c)] =>
                {Neighbours(c)[k] : k \in 1..Len(Neighbours(c))} = Block(c)

\* C10: on a grid without terrain cost the route does not depend on the
\* heuristic: the call made after the checkbox changed the heuristic returns
\* the route that the call before it returned (start and goal are the same).
SameRouteForBothHeuristics ==
    [][(pc = "reconstruct" /\ pc' = "done" /\ path # <<>>) => path' = path]_vars

\* the record of a cell of the route, other than start, holds the scores that
\* line 189-191 compute from its parent with the present goal and heuristic
ScoredWithCurrent(c) ==
    LET n == tileNodes[Index(c)]
    IN  /\ n.g = Dist(n.parent, c)
        /\ n.h = FAdd(Dist(c, goal), Cost(TerrainAt(c)))

\* C11: at the end of every frame the stored path is the route of a call
\* made with the present start, goal and heuristic: a frame that changes one
\* of them, or in which the button is pressed, calls FindPath in that frame,
\* and the path stored leads from the present start to the present goal over
\* records scored with the present heuristic.
PathIsCurrentAtFrameEnd ==
    /\ [](Returned =>
            /\ path[1] = start
            /\ path[Len(path)] = goal
            /\ \A k \in 2..Len(path) :
                  /\ tileNodes[Index(path[k])].parent = path[k - 1]
                  /\ ScoredWithCurrent(path[k]))
    /\ [][(start' # start \/ goal' # goal \/ manhattan' # manhattan) => pc' = "call"]_vars

\* a frame has ended with start, goal and heuristic all different from the
\* values main began with, and a route of at least three cells
PathIsCurrentWitness ==
    /\ Returned
    /\ ~manhattan
    /\ start # MkCell(0, 0)
    /\ goal # MkCell(FrameSide - 1, FrameSide - 1)
    /\ Len(path) >= 3

\* the iteration that leads to the next state took the cell of the open
\* entry n as current: n has left the queue, its cell is closed, and every
\* record written has that cell as parent
CurrentIs(n) ==
    /\ closedList'[Index(n.cell)]
    /\ (openList (-) SetToBag({n})) \sqsubseteq openList'
    /\ \A c \in Cells :
          tileNodes'[Index(c)] # tileNodes[Index(c)] =>
              tileNodes'[Index(c)].parent = n.cell

\* C12: in every iteration of the search loop the current cell is the cell
\* of an open entry that Compare orders after no other entry: its F is less
\* than or equal to the F of every entry of the queue; the iteration that
\* breaks the loop found the goal in such an entry.
CurrentHasLeastF ==
    /\ [][(pc = "search" /\ pc' = "search") =>
            \E n \in BagToSet(openList) :
                /\ CurrentIs(n)
                /\ \A m \in BagToSet(openList) : ~Compare(n, m) /\ F(n) <= F(m)]_vars
    /\ [][(pc = "search" /\ pc' = "reconstruct" /\ openList # EmptyBag) =>
            \E n \in BagToSet(openList) :
                /\ AtGoal(n.cell)
                /\ \A m \in BagToSet(openList) : ~Compare(n, m) /\ F(n) <= F(m)]_vars

\* the search goes on after two expansions with entries of at least three
\* different F in the queue
CurrentHasLeastFWitness ==
    /\ pc = "search"
    /\ Cardinality({c \in Cells : closedList[Index(c)]}) >= 2
    /\ Cardinality({F(n) : n \in BagToSet(openList)}) >= 3

\* C13: during and after a search with start and goal on the grid, start is
\* the only cell whose record has the cell itself as parent: the record of
\* start keeps parent = start, and no other record gets its own cell.
OnlyStartIsOwnParent ==
    pc \in {"search", "reconstruct", "done"} =>
        \A c \in Cells : tileNodes[Index(c)].parent = c <=> c = start

\* a search from a cell that Neighbours lists among its own neighbours has
\* closed three cells and returned
OnlyStartIsOwnParentWitness ==
    /\ Returned
    /\ start # MkCell(0, 0)
    /\ CellEq(Neighbours(start)[1], start) \/ \E k \in 2..Len(Neighbours(start)) :
                                                CellEq(Neighbours(start)[k], start)
    /\ Cardinality({c \in Cells : closedList[Index(c)]}) >= 3

\* the entries that an iteration has added to the queue
Pushed == openList' (-) openList

\* the cells whose record an iteration has written
Written == {c \in Cells : tileNodes'[Index(c)] # tileNodes[Index(c)]}

\* C14: a neighbour is pushed and its record overwritten only when the
\* record is unvisited (F <= FLT_EPSILON) or the new F is strictly less than
\* the stored F, and the two happen together: every record written gets an F
\* above FLT_EPSILON and below the F it had if it was visited, so a visited
\* cell is never unvisited again and its stored F strictly decreases; one
\* entry with the same cell, g and h is pushed for each record written and
\* no other entry, so a relaxation that does not write does not push.
WriteOnlyWhenBetter ==
    [][(pc = "search" /\ pc' = "search") =>
          /\ \A c \in Written :
                /\ F(tileNodes'[Index(c)]) > FLT_EPSILON
                /\ \/ F(tileNodes[Index(c)]) <= FLT_EPSILON
                   \/ F(tileNodes'[Index(c)]) < F(tileNodes[Index(c)])
                /\ CopiesIn(Node(c, NoCell, tileNodes'[Index(c)].g,
                                 tileNodes'[Index(c)].h), Pushed) = 1
          /\ BagCardinality(Pushed) = Cardinality(Written)
          /\ \A c \in Cells :
                F(tileNodes[Index(c)]) > FLT_EPSILON =>
                    F(tileNodes'[Index(c)]) > FLT_EPSILON]_vars

\* a record has been overwritten with a better score: the queue holds two
\* entries of one cell with different F
WriteOnlyWhenBetterWitness ==
    /\ pc = "search"
    /\ \E n, m \in BagToSet(openList) : n.cell = m.cell /\ F(n) < F(m)

\* C15: a cell that is closed stays closed until the call returns; no step
\* of the call changes the record of a cell that is closed after the step
\* (the cell being expanded included) or pushes an entry for such a cell.
ClosedIsFrozen ==
    [][(pc \in {"search", "reconstruct"}) =>
          \A c \in Cells :
              /\ closedList[Index(c)] => closedList'[Index(c)]
              /\ closedList'[Index(c)] =>
                    /\ tileNodes'[Index(c)] = tileNodes[Index(c)]
                    /\ \A n \in BagToSet(Pushed) : n.cell # c]_vars

\* the search goes on with three cells closed, one of them next to the cell
\* on top of the queue and scored worse than from there
ClosedIsFrozenWitness ==
    /\ pc = "search"
    /\ Cardinality({c \in Cells : closedList[Index(c)]}) >= 3
    /\ \E top \in TopNodes : \E c \in Cells :
          /\ closedList[Index(c)]
          /\ c # start
          /\ Adjacent(top.cell, c)
          /\ FAdd(Dist(top.cell, c), FAdd(Dist(c, goal), Cost(TerrainAt(c))))
                 < F(tileNodes[Index(c)])

\* C16: for start and goal on the grid and different, on every map and with
\* either heuristic, the search loop does not end with the queue empty: it
\* ends with an entry of the goal on top, and the record of the goal has
\* been written (its parent is a cell of the grid), so the reconstruction
\* starts from a visited record.
SearchEndsAtGoal ==
    (start # goal /\ pc \in {"reconstruct", "done"}) =>
        /\ openList # EmptyBag
        /\ \E top \in TopNodes : AtGoal(top.cell)
        /\ InBounds(tileNodes[Index(goal)].parent)
        /\ F(tileNodes[Index(goal)]) > FLT_EPSILON

\* the loop has ended for a goal on a mountain after all the other cells,
\* but at most one, were expanded
SearchEndsAtGoalWitness ==
    /\ pc = "reconstruct"
    /\ start # goal
    /\ TerrainAt(goal) = MOUNTAIN
    /\ Cardinality({c \in Cells : closedList[Index(c)]}) >= 5

\* the cells met by following parent from c, for at most k links
RECURSIVE ParentChain(_, _)
ParentChain(c, k) ==
    IF k = 0 \/ ~InBounds(c) \/ tileNodes[Index(c)].parent = c THEN <<c>>
    ELSE <<c>> \o ParentChain(tileNodes[Index(c)].parent, k - 1)

NoRepeat(s) == \A i, j \in 1..Len(s) : s[i] = s[j] => i = j

\* C17: a record written for a cell other than start names a parent that is
\* closed, for a cell that is not; so the parent links from every visited
\* cell lead to start without meeting a cell twice, and the route returned
\* holds no cell twice.
ParentsAreClosed ==
    /\ [][(pc = "search" /\ pc' = "search") =>
            \A c \in Written :
                /\ c # start
                /\ ~closedList'[Index(c)]
                /\ InBounds(tileNodes'[Index(c)].parent)
                /\ closedList'[Index(tileNodes'[Index(c)].parent)]]_vars
    /\ [](pc \in {"search", "reconstruct", "done"} =>
            \A c \in Cells :
                F(tileNodes[Index(c)]) > FLT_EPSILON =>
                    LET chain == ParentChain(c, nodeCount)
                    IN  chain[Len(chain)] = start /\ NoRepeat(chain))
    /\ [](Returned => NoRepeat(path))

\* a route of four cells or more has been returned after every cell was
\* visited
ParentsAreClosedWitness ==
    /\ Returned
    /\ Len(path) >= 4
    /\ \A c \in Cells \ {start} : F(tileNodes[Index(c)]) > FLT_EPSILON

\* the queue holds at most one entry for each cell
OneEntryPerCell ==
    \A n, m \in BagToSet(openList) :
        n.cell = m.cell => n = m /\ CopiesIn(n, openList) = 1

\* the iteration that leads to the next state expanded a cell that was not
\* closed before
ExpandsOpenCell ==
    \E n \in BagToSet(openList) : CurrentIs(n) /\ ~closedList[Index(n.cell)]

\* C18: during a search the queue never holds two entries for one cell, and
\* every iteration expands a cell that was not closed before, so each cell
\* is expanded at most once.
ExpandedAtMostOnce ==
    /\ [](pc = "search" => OneEntryPerCell)
    /\ [][(pc = "search" /\ pc' = "search") => ExpandsOpenCell]_vars
====
